---- MODULE Spec2Model ----
(***************************************************************************)
(* Model of etl_tnl_alert.py, a Glue job that is one straight-line script: *)
(* resolve parameters, derive the clean key, get the raw object, read it   *)
(* as a spreadsheet, split the Testing-Results column, read it again as a  *)
(* Word document, and put the CSV of the interim frame.                    *)
(*                                                                         *)
(* Spec is one run of the script, statement group by statement group.      *)
(* Strings are sequences of characters or tokens.  An exception that is    *)
(* not caught ends the run; `raised` records its type and the line that    *)
(* raised it.                                                              *)
(*                                                                         *)
(* No run gets past line 121 (see SelectBranch), so the statements after   *)
(* it are modelled as operators and exercised by SpecBlocks, which applies *)
(* each of them to inputs drawn from bounded sets.                         *)
(***************************************************************************)
EXTENDS Integers, Sequences, FiniteSets

VARIABLES
    alert_obj_key,  \* parameters["ALERT_OBJ_KEY"], a token sequence
    clean_obj_key,  \* the derived output key
    doc,            \* the object stored under alert_obj_key in the raw bucket
    response,       \* the last response of s3_client
    data,           \* the DataFrame `data`
    interim,        \* the DataFrame `interim`
    s3calls,        \* the calls made on s3_client, in order
    log,            \* the messages given to the logger, in order
    raised,         \* the uncaught exception that ended the run, if any
    pc,             \* the statement group the run is at
    blk,            \* SpecBlocks: the block under application
    arg,            \* SpecBlocks: its input
    out             \* SpecBlocks: its result, once applied

runVars == <<alert_obj_key, clean_obj_key, doc, response, data, interim,
             s3calls, log, raised, pc>>
vars == <<alert_obj_key, clean_obj_key, doc, response, data, interim,
          s3calls, log, raised, pc, blk, arg, out>>

----------------------------------------------------------------------------
(* Bounds of the model. *)

MaxKeyLen == 3
MaxSheetRows == 3
MaxHyphenLen == 2
MaxRows == 2
MaxPrefixLen == 3
MaxPrefixRows == 1
MaxHeaderLen == 2
MaxDocRows == 1

----------------------------------------------------------------------------
(* Generic helpers. *)

SeqsUpTo(S, n) == UNION {[1..k -> S] : k \in 0..n}

Range(s) == {s[i] : i \in DOMAIN s}

Drop(s, n) == SubSeq(s, n + 1, Len(s))

----------------------------------------------------------------------------
(* Program constants. *)

OUT_COL_NAMES ==
    <<"Empty", "Testing-Results", "State", "Date_Received", "Date_Reported",
      "Last_Name", "First_Name", "DOB", "State_Lab_ID", "Specimen",
      "Date_Collection", "Submitting_Facility", "Sample_Collection_Facility",
      "Known_Positive", "Colonization_Detected">>

HTTP_OK == 200

\* HTTPStatusCode values a response can carry; 0 stands for None (no
\* ResponseMetadata / HTTPStatusCode in the response).
Status == {200, 204, 404, 0}

NoException == [type |-> "none", line |-> 0]

NoFrame == [columns |-> <<>>, rows |-> <<>>]

NoCsv == [header |-> <<>>, rows |-> <<>>]

NoObject == [kind |-> "none", ncols |-> 0, rows |-> <<>>]

NoResponse == [status |-> 0, body |-> NoObject]

----------------------------------------------------------------------------
(* Object keys.  A key is a sequence of tokens: a name, a path separator,  *)
(* or one of the extension texts; ".xlsx" occurs in a key only as a token. *)

KeyTokens == {"d", "/", ".xlsx", ".docx"}

Keys == SeqsUpTo(KeyTokens, MaxKeyLen) \ {<<>>}

\* alert_obj_key.replace(".xlsx", ".csv"): every occurrence is replaced.
CleanKey(key) ==
    [i \in DOMAIN key |-> IF key[i] = ".xlsx" THEN ".csv" ELSE key[i]]

----------------------------------------------------------------------------
(* The raw object.  A spreadsheet is its column count and, row by row,     *)
(* its cell in the second column; a Word document is not readable as a     *)
(* spreadsheet.  A cell holds the marker "C" (the text "Candida auris")    *)
(* or an "S" (other text).                                                 *)

SheetCells == {<<"S">>, <<"C">>}

Sheets ==
    {[kind |-> "xlsx", ncols |-> n, rows |-> r] :
        n \in {Len(OUT_COL_NAMES) - 1, Len(OUT_COL_NAMES)},
        r \in SeqsUpTo(SheetCells, MaxSheetRows)}

WordDocs == {[kind |-> "docx", ncols |-> 0, rows |-> <<>>]}

Docs == Sheets \cup WordDocs

\* pd.read_excel: the first row of the sheet becomes the header, the rest
\* are the rows of the frame; a sheet with no row gives a frame with no column.
ReadExcel(body) ==
    IF body.rows = <<>>
    THEN [ncols |-> 0, columns |-> <<>>, rows |-> <<>>]
    ELSE [ncols |-> body.ncols, columns |-> <<>>, rows |-> Tail(body.rows)]

\* data[1:].reset_index(drop=True)
StripHeaderRow(frame) ==
    [frame EXCEPT !.rows = IF frame.rows = <<>> THEN <<>> ELSE Tail(frame.rows)]

\* DataFrame.__getattr__(name): a column of that name, else AttributeError.
DataFrameGetattr(columns, name) ==
    IF name \in Range(columns) THEN "Series" ELSE "AttributeError"

\* status != 200, line 75
GetFailed_lenient(status) == status >= 400

GetFailed(status) == status # HTTP_OK

\* status != 200, line 214
PutFailed_lenient(status) == status >= 400

PutFailed(status) == status # HTTP_OK

----------------------------------------------------------------------------
(* One run of the script. *)

Init ==
    /\ alert_obj_key \in Keys
    /\ doc \in Docs
    /\ clean_obj_key = <<>>
    /\ response = NoResponse
    /\ data = NoFrame
    /\ interim = NoFrame
    /\ s3calls = <<>>
    /\ log = <<>>
    /\ raised = NoException
    /\ pc = "derive"
    /\ blk = "none"
    /\ arg = <<>>
    /\ out = <<>>

\* line 64
DeriveKey ==
    /\ pc = "derive"
    /\ clean_obj_key' = CleanKey(alert_obj_key)
    /\ pc' = "get"
    /\ UNCHANGED <<alert_obj_key, doc, response, data, interim, s3calls,
                   log, raised, blk, arg, out>>

\* lines 71-73: the store answers with any status; the body is the object
\* when it answers 200.
GetObject ==
    /\ pc = "get"
    /\ \E st \in Status :
          response' = [status |-> st,
                       body |-> IF st = HTTP_OK THEN doc ELSE NoObject]
    /\ s3calls' = Append(s3calls, [op |-> "get_object", key |-> alert_obj_key,
                                   body |-> NoCsv])
    /\ pc' = "check"
    /\ UNCHANGED <<alert_obj_key, clean_obj_key, doc, data, interim, log,
                   raised, blk, arg, out>>

\* lines 75-88
CheckStatus ==
    /\ pc = "check"
    /\ IF GetFailed(response.status)
       THEN /\ log' = Append(log, [level |-> "error", msg |-> "could_not_get"])
            /\ raised' = [type |-> "Exception", line |-> 86]
            /\ pc' = "done"
       ELSE /\ log' = Append(log, [level |-> "info", msg |-> "obtained"])
            /\ raised' = raised
            /\ pc' = "read_excel"
    /\ UNCHANGED <<alert_obj_key, clean_obj_key, doc, response, data, interim,
                   s3calls, blk, arg, out>>

\* line 100: read_excel is given the body whatever the object is; a body
\* that is not a workbook makes it raise ValueError.
ReadSheet ==
    /\ pc = "read_excel"
    /\ IF response.body.kind = "xlsx"
       THEN /\ data' = ReadExcel(response.body)
            /\ raised' = raised
            /\ pc' = "strip"
       ELSE /\ data' = data
            /\ raised' = [type |-> "ValueError", line |-> 100]
            /\ pc' = "done"
    /\ UNCHANGED <<alert_obj_key, clean_obj_key, doc, response, interim,
                   s3calls, log, blk, arg, out>>

\* lines 103-108: assigning 15 column names to a frame of another width
\* raises ValueError (length mismatch).
StripHeader ==
    /\ pc = "strip"
    /\ IF data.ncols = Len(OUT_COL_NAMES)
       THEN /\ data' = [StripHeaderRow(data) EXCEPT !.columns = OUT_COL_NAMES]
            /\ interim' = NoFrame
            /\ raised' = raised
            /\ pc' = "select"
       ELSE /\ data' = StripHeaderRow(data)
            /\ interim' = interim
            /\ raised' = [type |-> "ValueError", line |-> 105]
            /\ pc' = "done"
    /\ UNCHANGED <<alert_obj_key, clean_obj_key, doc, response, s3calls,
                   log, blk, arg, out>>

\* line 121: `data` is a DataFrame; data.find is an attribute lookup, which
\* raises AttributeError unless a column is named "find", and the truth
\* value of a column raises ValueError.  Neither branch is entered.
SelectBranch ==
    /\ pc = "select"
    /\ raised' = [type |-> IF DataFrameGetattr(data.columns, "find") = "Series"
                           THEN "ValueError" ELSE "AttributeError",
                  line |-> 121]
    /\ pc' = "done"
    /\ UNCHANGED <<alert_obj_key, clean_obj_key, doc, response, data, interim,
                   s3calls, log, blk, arg, out>>

Next ==
    \/ DeriveKey
    \/ GetObject
    \/ CheckStatus
    \/ ReadSheet
    \/ StripHeader
    \/ SelectBranch

Spec == Init /\ [][Next]_vars

----------------------------------------------------------------------------
(* Text helpers: str.split(sep) and str.strip(). *)

HasChar(s, c) == \E i \in 1..Len(s) : s[i] = c

FirstIndex(s, c) == CHOOSE i \in 1..Len(s) : s[i] = c /\ \A k \in 1..(i - 1) : s[k] # c

RECURSIVE Split(_, _)
Split(s, sep) ==
    IF ~HasChar(s, sep)
    THEN <<s>>
    ELSE LET i == FirstIndex(s, sep)
         IN  <<SubSeq(s, 1, i - 1)>> \o Split(Drop(s, i), sep)

RECURSIVE LStrip(_)
LStrip(s) == IF s # <<>> /\ Head(s) = " " THEN LStrip(Tail(s)) ELSE s

RECURSIVE RStrip(_)
RStrip(s) ==
    IF s # <<>> /\ s[Len(s)] = " " THEN RStrip(SubSeq(s, 1, Len(s) - 1)) ELSE s

Strip(s) == RStrip(LStrip(s))

----------------------------------------------------------------------------
(* The interim frame of the spreadsheet parser, lines 108-156.  The values *)
(* of the date, Patient Name and Source columns are not tracked here.      *)

InterimCols ==
    <<"Mechanism (*Submitters Report)", "Organism", "Date Received",
      "Date Reported", "Patient Name", "DOB", "Source", "Date of Collection",
      "Testing Lab">>

NotRaised(frame) == [applied |-> TRUE, raised |-> NoException, frame |-> frame]

Raises(type, line) ==
    [applied |-> TRUE, raised |-> [type |-> type, line |-> line], frame |-> NoFrame]

\* lines 129/147 and 148-156: the two columns of the pairs, then the label.
SpreadsheetInterim(pairs) ==
    [columns |-> InterimCols,
     rows |-> [i \in DOMAIN pairs |->
                 [mechanism |-> pairs[i][1], organism |-> pairs[i][2],
                  lab |-> "TNL"]]]

\* lines 124-129.  `for m, o in ...` unpacks each split into exactly two
\* names, and the two targets of line 129 unpack zip(*pairs), which yields
\* nothing when pairs is empty.
HyphenBranch(column) ==
    IF \E i \in DOMAIN column : Len(Split(column[i], "-")) # 2
    THEN Raises("ValueError", 126)
    ELSE IF column = <<>>
    THEN Raises("ValueError", 129)
    ELSE NotRaised(SpreadsheetInterim(
            [i \in DOMAIN column |->
                <<Strip(Split(column[i], "-")[1]), Strip(Split(column[i], "-")[2])>>]))

\* org_pattern = r"([A-Z]\..*?)(?=,)": a capital, a period, then as few
\* characters as possible up to, not including, a comma.
Capitals == {"S"}

MatchesAt(s, i) ==
    /\ i + 1 <= Len(s)
    /\ s[i] \in Capitals
    /\ s[i + 1] = "."
    /\ \E j \in (i + 2)..Len(s) : s[j] = ","

MatchStart(s) ==
    CHOOSE i \in 1..Len(s) : MatchesAt(s, i) /\ \A k \in 1..(i - 1) : ~MatchesAt(s, k)

\* the index of the comma that ends the match starting at i
MatchStop(s, i) ==
    CHOOSE j \in (i + 2)..Len(s) : s[j] = "," /\ \A k \in (i + 2)..(j - 1) : s[k] # ","

HasMatch(s) == \E i \in 1..Len(s) : MatchesAt(s, i)

\* comp_pattern.search(s): a match object, or None
RegexSearch(s) ==
    IF HasMatch(s)
    THEN [none |-> FALSE,
          group |-> SubSeq(s, MatchStart(s), MatchStop(s, MatchStart(s)) - 1)]
    ELSE [none |-> TRUE, group |-> <<>>]

\* re.sub(org_pattern, lambda x: "", s): every non-overlapping match removed
RECURSIVE RegexSub(_)
RegexSub(s) ==
    IF ~HasMatch(s)
    THEN s
    ELSE LET i == MatchStart(s)
             j == MatchStop(s, i)
         IN  SubSeq(s, 1, i - 1) \o RegexSub(Drop(s, j - 1))

UNKNOWN == <<"UNKNOWN">>

\* lines 136-147.  `.group` is looked up on the result of search, which is
\* None when nothing matches: AttributeError.
PrefixBranch(column) ==
    IF \E i \in DOMAIN column : RegexSearch(column[i]).none
    THEN Raises("AttributeError", 142)
    ELSE IF column = <<>>
    THEN Raises("ValueError", 147)
    ELSE NotRaised(SpreadsheetInterim(
            [i \in DOMAIN column |->
                <<RegexSub(column[i]),
                  IF RegexSearch(column[i]).group = <<>>
                  THEN UNKNOWN ELSE RegexSearch(column[i]).group>>]))

----------------------------------------------------------------------------
(* Dates.  A date text is a sequence of tokens: "w" is a word that is no   *)
(* part of a date, "D1" and "D2" are complete date expressions.            *)

DateTokens == {"D1", "D2"}

\* pd.to_datetime(value, errors="coerce") on one value: the date when the
\* whole text is a date, NaT otherwise.
ToDatetimeCoerce(text) ==
    IF Len(text) = 1 /\ text[1] \in DateTokens THEN text[1] ELSE "NaT"

\* dparser.parse(text, fuzzy=True): words around a date are skipped; a text
\* with no date raises ParserError; with several dates dateutil either
\* raises or settles on one reading.
FuzzyParse(text) ==
    LET dates == {i \in 1..Len(text) : text[i] \in DateTokens}
    IN  IF dates = {} THEN {"ParserError"}
        ELSE IF Cardinality(dates) = 1 THEN {text[i] : i \in dates}
        ELSE {text[i] : i \in dates} \cup {"ParserError"}

----------------------------------------------------------------------------
(* The document-table parser, lines 168-202.  A table is the text of the   *)
(* first cell of its first row and its data rows (the rows after the row   *)
(* of column names); a data row is its DOB and Date of Collection texts.   *)

\* lines 190-202, given the date parsed at line 175
DocumentInterim(table, date_received) ==
    [columns |-> InterimCols \o <<"Facility of Origin">>,
     rows |-> [i \in DOMAIN table.rows |->
                 [received |-> date_received,
                  reported |-> date_received,
                  dob |-> ToDatetimeCoerce(table.rows[i].dob),
                  collected |-> ToDatetimeCoerce(table.rows[i].collected),
                  lab |-> "GPHL"]]]

\* lines 168-202, for one outcome of the parse at line 175.  `before` is
\* the frame the spreadsheet parser left in `interim`; line 190 rebinds
\* `interim` to a new frame, so nothing of it is kept.
DocumentParser(before, table, parsed) ==
    IF parsed = "ParserError"
    THEN Raises("ParserError", 175)
    ELSE NotRaised(DocumentInterim(table, parsed))

----------------------------------------------------------------------------
(* The output block, lines 205-230. *)

CsvValue(v) == IF v = "NaT" THEN "" ELSE v

\* interim.to_csv(csv_buff, index=False)
ToCsv(frame) ==
    [header |-> frame.columns,
     rows |-> [i \in DOMAIN frame.rows |->
                 [f \in DOMAIN frame.rows[i] |-> CsvValue(frame.rows[i][f])]]]

\* put_object is called with the whole CSV before its status is looked at;
\* the store holds the object when it answers 200.
OutputBlock(frame, key, status) ==
    [applied |-> TRUE,
     frame |-> frame,
     calls |-> <<[op |-> "put_object", key |-> key, body |-> ToCsv(frame)]>>,
     stored |-> status = HTTP_OK,
     log |-> IF PutFailed(status)
             THEN <<[level |-> "error", msg |-> "could_not_write"]>>
             ELSE <<[level |-> "info", msg |-> "transformed"]>>,
     raised |-> IF PutFailed(status)
                THEN [type |-> "Exception", line |-> 225]
                ELSE NoException]

\* lines 168-230: the document-table parser, then the output block.
ScriptTail(before, table, parsed, key, status) ==
    LET p == DocumentParser(before, table, parsed)
    IN  IF p.raised # NoException
        THEN [applied |-> TRUE, frame |-> NoFrame, calls |-> <<>>,
              stored |-> FALSE, log |-> <<>>, raised |-> p.raised]
        ELSE OutputBlock(p.frame, key, status)

----------------------------------------------------------------------------
(* SpecBlocks: each block applied once to an input drawn from its set. *)

HyphenChars == {"S", "-", " "}

\* a cell read from the sheet as text is not empty (an empty cell is no text)
HyphenColumns == SeqsUpTo(SeqsUpTo(HyphenChars, MaxHyphenLen) \ {<<>>}, MaxRows)

PrefixChars == {"S", ".", ",", " "}

PrefixColumns ==
    SeqsUpTo(SeqsUpTo(PrefixChars, MaxPrefixLen) \ {<<>>}, MaxPrefixRows)

HeaderTexts == SeqsUpTo({"w", "D1", "D2"}, MaxHeaderLen)

DateTexts == {<<>>, <<"D1">>, <<"w", "D1">>}

Tables ==
    {[header |-> h, rows |-> r] :
        h \in HeaderTexts,
        r \in SeqsUpTo([dob : DateTexts, collected : DateTexts], MaxDocRows)}

\* what the spreadsheet parser can have left in `interim`: no row, or the
\* rows of a one-cell column
BeforeFrames ==
    {SpreadsheetInterim(<<>>), HyphenBranch(<<<<"S", " ", "-", "S">>>>).frame}

TailInputs ==
    [before : BeforeFrames, table : Tables, key : {<<"d", ".csv">>},
     status : Status]

NotApplied == [applied |-> FALSE]

InitBlocks ==
    /\ alert_obj_key = <<>>
    /\ clean_obj_key = <<>>
    /\ doc = NoObject
    /\ response = NoResponse
    /\ data = NoFrame
    /\ interim = NoFrame
    /\ s3calls = <<>>
    /\ log = <<>>
    /\ raised = NoException
    /\ pc = "blocks"
    /\ out = NotApplied
    /\ \/ blk = "hyphen" /\ arg \in HyphenColumns
       \/ blk = "prefix" /\ arg \in PrefixColumns
       \/ blk = "tail" /\ arg \in TailInputs

ApplyHyphen ==
    /\ blk = "hyphen" /\ ~out.applied
    /\ out' = HyphenBranch(arg)
    /\ UNCHANGED <<runVars, blk, arg>>

ApplyPrefix ==
    /\ blk = "prefix" /\ ~out.applied
    /\ out' = PrefixBranch(arg)
    /\ UNCHANGED <<runVars, blk, arg>>

ApplyTail ==
    /\ blk = "tail" /\ ~out.applied
    /\ \E parsed \in FuzzyParse(arg.table.header) :
          out' = ScriptTail(arg.before, arg.table, parsed, arg.key, arg.status)
    /\ UNCHANGED <<runVars, blk, arg>>

NextBlocks ==
    \/ ApplyHyphen
    \/ ApplyPrefix
    \/ ApplyTail

SpecBlocks == InitBlocks /\ [][NextBlocks]_vars

----------------------------------------------------------------------------
(* Claims about a run (Spec). *)

PutCalls == SelectSeq(s3calls, LAMBDA c : c.op = "put_object")

GetCalls == SelectSeq(s3calls, LAMBDA c : c.op = "get_object")

\* C1: once the read has answered with a status other than 200 and the
\* status has been looked at, the run is over: the error message is logged,
\* the exception of line 86 ended the run, and put_object was not called.
C1_AcquisitionFailFast ==
    (pc \notin {"derive", "get", "check"} /\ response.status # 200) =>
        /\ pc = "done"
        /\ raised = [type |-> "Exception", line |-> 86]
        /\ log = <<[level |-> "error", msg |-> "could_not_get"]>>
        /\ PutCalls = <<>>

C1_Witness ==
    /\ pc = "done"
    /\ response.status = 404
    /\ raised.type = "Exception"
    /\ log # <<>>

\* C5: a run that reaches the branch selection of the spreadsheet parser
\* (the 15 column names are assigned) gets through it without raising.
C5_SelectionCompletes ==
    (pc = "done" /\ data.columns = OUT_COL_NAMES) => raised = NoException

\* C8: for a key that ends in an extension, the derived key is the key with
\* that last token replaced by ".csv" and nothing else changed, and differs
\* from the key.
C8_OnlyTrailingExtensionReplaced ==
    (/\ pc # "derive"
     /\ alert_obj_key # <<>>
     /\ alert_obj_key[Len(alert_obj_key)] \in {".xlsx", ".docx"}) =>
        /\ clean_obj_key =
              SubSeq(alert_obj_key, 1, Len(alert_obj_key) - 1) \o <<".csv">>
        /\ clean_obj_key # alert_obj_key

\* C10: the read is called exactly once, the write at most once and only
\* after a successful read, and a finished run ended with the acquisition
\* error, the publication error, or both informational messages logged.
C10_ThreeWaysToEnd ==
    /\ pc \notin {"derive", "get"} => Len(GetCalls) = 1
    /\ Len(PutCalls) <= 1
    /\ PutCalls # <<>> => response.status = 200
    /\ pc = "done" =>
          \/ raised = [type |-> "Exception", line |-> 86]
          \/ raised = [type |-> "Exception", line |-> 225]
          \/ /\ raised = NoException
             /\ log = <<[level |-> "info", msg |-> "obtained"],
                        [level |-> "info", msg |-> "transformed"]>>

----------------------------------------------------------------------------
(* Claims about the blocks after line 121 (SpecBlocks). *)

C6_PrefixNeverRaises ==
    (blk = "prefix" /\ out.applied /\ arg # <<>>) =>
        /\ out.raised = NoException
        /\ \A i \in DOMAIN arg :
              out.frame.rows[i].organism =
                 IF HasMatch(arg[i]) THEN RegexSearch(arg[i]).group ELSE UNKNOWN

\* C7: the hyphen branch gives one record per cell of the column, whatever
\* the number of hyphens in a cell and for an empty column.
C7_RowCountPreserved ==
    (blk = "hyphen" /\ out.applied) =>
        /\ out.raised = NoException
        /\ Len(out.frame.rows) = Len(arg)

\* C9: whatever the header text of the table, parsing its date does not
\* end the run: the run gets to put_object.
C9_HeaderDateNeverAborts ==
    (blk = "tail" /\ out.applied) =>
        /\ out.raised.type # "ParserError"
        /\ out.calls # <<>>

====
